---------------------------- MODULE Spec2Model ----------------------------
(***************************************************************************)
(* Booking / payment reconciliation server (src/index.js).                 *)
(*                                                                         *)
(* Three document collections (bookings, payments, users), the payment     *)
(* provider's checkout sessions, and the HTTP handlers that act on them.   *)
(* A handler that awaits more than one store or provider call is a         *)
(* process whose steps interleave with every other request; a handler      *)
(* that makes a single store call is one atomic action.                    *)
(***************************************************************************)
EXTENDS Integers, Sequences, FiniteSets, TLC

VARIABLES
    bookings,   \* bookingCollection: _id -> document
    nextId,     \* number of ObjectIds the booking store has generated
    payments,   \* paymentCollection: sequence of documents, _id = index
    users,      \* usersCollection: _id -> document
    nextUid,    \* number of ObjectIds the user store has generated
    sessions,   \* the provider's checkout sessions, id = index
    now,        \* the server clock (new Date())
    req,        \* in-flight requests of the multi-step handlers
    served,     \* history: sessions for which a confirm call that saw "paid"
                \* has returned (req[p].again: it had when p's call started)
    crashed     \* history: sessions whose confirm failed between its two writes

vars == <<bookings, nextId, payments, users, nextUid, sessions, now, req,
          served, crashed>>

-----------------------------------------------------------------------------
(* Bounds of the model *)

MaxBookings == 1
MaxSessions == 1
MaxUsers == 2
MaxClock == 1

\* the request slots: two requests may be in flight at once
Procs == {1, 2}

-----------------------------------------------------------------------------
(* Documents are records; $set merges a record of fields into a document *)

Has(doc, f) == f \in DOMAIN doc

\* { $set: upd } applied to doc
SetFields(doc, upd) ==
    [f \in (DOMAIN doc) \cup (DOMAIN upd) |->
        IF f \in DOMAIN upd THEN upd[f] ELSE doc[f]]

\* delete obj.f
DeleteField(obj, f) == [g \in (DOMAIN obj) \ {f} |-> obj[g]]

-----------------------------------------------------------------------------
(* JavaScript values of the pricing fields.  A price is a number, held in  *)
(* thousandths of the currency unit so that Math.round has fractions to    *)
(* round, or a string that Number() cannot parse.  An undefined field is a *)
(* field the document does not have.                                       *)

Num(n) == [t |-> "num", v |-> n]
NonNumeric == [t |-> "str", v |-> 0]
NaN == [t |-> "nan", v |-> 0]

\* x || ... : 0, NaN and undefined are falsy, a non-empty string is truthy
TruthyPrice(doc, f) ==
    /\ Has(doc, f)
    /\ \/ doc[f].t = "str"
       \/ doc[f].t = "num" /\ doc[f].v # 0

\* a string field: undefined and "" are falsy
TruthyStr(doc, f) == Has(doc, f) /\ doc[f] # ""

StrOr(doc, f, d) == IF TruthyStr(doc, f) THEN doc[f] ELSE d

\* a count field (guests): undefined and 0 are falsy
TruthyCount(doc, f) == Has(doc, f) /\ doc[f] # 0

\* booking.guests || booking.numberOfGuests || 1
GuestCount(booking) ==
    IF TruthyCount(booking, "guests") THEN booking.guests
    ELSE IF TruthyCount(booking, "numberOfGuests") THEN booking.numberOfGuests
    ELSE 1

\* booking.pricePerPerson * (guest count): undefined or a string gives NaN
PerPersonTotal(booking) ==
    IF Has(booking, "pricePerPerson") /\ booking.pricePerPerson.t = "num"
    THEN Num(booking.pricePerPerson.v * GuestCount(booking))
    ELSE NaN

\* booking.finalPrice || booking.originalTotal || pricePerPerson * guests
PriceOperand(booking) ==
    IF TruthyPrice(booking, "finalPrice") THEN booking.finalPrice
    ELSE IF TruthyPrice(booking, "originalTotal") THEN booking.originalTotal
    ELSE PerPersonTotal(booking)

\* Math.round(x) of x = m / 10: the nearest integer, halves rounded up
MathRound10(m) == (m + 5) \div 10

\* Math.round(Number(operand) * 100) || 0, in cents
CheckoutAmount(booking) ==
    LET x == PriceOperand(booking)
    IN  IF x.t = "num" THEN MathRound10(x.v) ELSE 0

-----------------------------------------------------------------------------
(* Bookings CRUD *)

\* POST /bookings: the document the handler inserts
NewBooking(body, t) ==
    SetFields(body,
        [createdAt |-> t,
         status |-> StrOr(body, "status", "pending"),
         paymentStatus |-> StrOr(body, "paymentStatus", "unpaid")])

\* POST /bookings
CreateBooking(body) ==
    /\ nextId < MaxBookings
    /\ IF ~TruthyStr(body, "tourId") \/ ~TruthyStr(body, "userEmail")
          \/ ~TruthyStr(body, "travelDate")
       THEN UNCHANGED <<bookings, nextId>>          \* 400
       ELSE /\ bookings' = bookings @@ ((nextId + 1) :> NewBooking(body, now))
            /\ nextId' = nextId + 1
    /\ UNCHANGED <<payments, users, nextUid, sessions, now, req, served, crashed>>

\* PATCH /bookings/:id: the $set document
BookingPatch(body, t) == SetFields(body, [updatedAt |-> t])

\* PATCH /bookings/:id
PatchBooking(id, body) ==
    /\ IF id \in DOMAIN bookings
       THEN bookings' = [bookings EXCEPT ![id] = SetFields(@, BookingPatch(body, now))]
       ELSE UNCHANGED bookings                      \* 404
    /\ UNCHANGED <<nextId, payments, users, nextUid, sessions, now, req, served, crashed>>

\* DELETE /bookings/:id
DeleteBooking(id) ==
    /\ IF id \in DOMAIN bookings
       THEN bookings' = [b \in (DOMAIN bookings) \ {id} |-> bookings[b]]
       ELSE UNCHANGED bookings                      \* 404
    /\ UNCHANGED <<nextId, payments, users, nextUid, sessions, now, req, served, crashed>>

-----------------------------------------------------------------------------
(* Checkout Initiator *)

\* stripe.checkout.sessions.create(...): the session the provider opens.
\* Its payment intent is the provider's own identifier, one per session.
NewSession(sid, bid, booking, amount) ==
    [payment_intent |-> sid,
     amount_total |-> amount,
     currency |-> "usd",
     metadata |-> [bookingId |-> bid,
                   tourId |-> StrOr(booking, "tourId", ""),
                   userEmail |-> StrOr(booking, "userEmail", "")],
     payment_status |-> "unpaid",
     customer_email |-> StrOr(booking, "userEmail", "")]

\* POST /create-checkout-session.  bid = 0 is a missing bookingId (400);
\* the provider refuses a negative unit_amount (500).
Initiate(bid) ==
    /\ Len(sessions) < MaxSessions
    /\ IF bid = 0 \/ bid \notin DOMAIN bookings
       THEN UNCHANGED sessions                      \* 400 / 404
       ELSE LET amount == CheckoutAmount(bookings[bid])
            IN  IF amount = 0 \/ amount < 0
                THEN UNCHANGED sessions             \* 400 Invalid booking amount / 500
                ELSE sessions' = Append(sessions,
                        NewSession(Len(sessions) + 1, bid, bookings[bid], amount))
    /\ UNCHANGED <<bookings, nextId, payments, users, nextUid, now, req, served, crashed>>

-----------------------------------------------------------------------------
(* Requests of the handlers that await more than one call *)

NoSession ==
    [payment_intent |-> 0, amount_total |-> 0, currency |-> "",
     metadata |-> [bookingId |-> 0, tourId |-> "", userEmail |-> ""],
     payment_status |-> "", customer_email |-> ""]

NoResp == [status |-> 0]

NoUser == [email |-> ""]

IdleReq ==
    [pc |-> "idle", sid |-> 0, session |-> NoSession, payId |-> 0,
     resp |-> NoResp, again |-> FALSE, user |-> NoUser]

\* a call that saw its session paid has returned to its caller
Served(p) ==
    IF req[p].session.payment_status = "paid"
    THEN served \cup {req[p].sid} ELSE served

\* res.send(...) / res.status(...).send(...): the request is answered
Respond(p, resp) == req' = [req EXCEPT ![p].pc = "idle", ![p].resp = resp]

-----------------------------------------------------------------------------
(* Payment Reconciler: GET /booking-success *)

\* const transactionId = session.payment_intent
TransactionId(session) == session.payment_intent

\* the lookup keyed on a field that never holds a transaction id
ExistingPaymentsByAmount(tx) ==
    {i \in 1..Len(payments) : payments[i].amount = tx}

\* paymentCollection.findOne({ transactionId }): the _ids that match
ExistingPayments(tx) ==
    {i \in 1..Len(payments) : payments[i].transactionId = tx}

FirstOf(S) == CHOOSE i \in S : \A j \in S : i <= j

\* the test taking every status but "unpaid" for a completed payment
IsNotUnpaid(session) == session.payment_status # "unpaid"

\* session.payment_status === "paid"
IsPaid(session) == session.payment_status = "paid"

\* the payment document recording the booking id as its transaction id
PaymentDocKeyedByBooking(session, id, t) ==
    [_id |-> id,
     bookingId |-> session.metadata.bookingId,
     tourId |-> session.metadata.tourId,
     userEmail |-> IF session.metadata.userEmail # ""
                   THEN session.metadata.userEmail
                   ELSE session.customer_email,
     amount |-> session.amount_total,
     currency |-> session.currency,
     transactionId |-> session.metadata.bookingId + 100,
     paymentStatus |-> session.payment_status,
     createdAt |-> t]

\* paymentDoc, with the _id insertOne gives it
PaymentDoc(session, id, t) ==
    [_id |-> id,
     bookingId |-> session.metadata.bookingId,
     tourId |-> session.metadata.tourId,
     userEmail |-> IF session.metadata.userEmail # ""
                   THEN session.metadata.userEmail
                   ELSE session.customer_email,
     amount |-> session.amount_total,
     currency |-> session.currency,
     transactionId |-> TransactionId(session),
     paymentStatus |-> session.payment_status,
     createdAt |-> t]

\* the booking update that marks the payment and forgets the status
ConfirmSetWithoutStatus(session, t) ==
    [paymentStatus |-> "paid",
     transactionId |-> TransactionId(session),
     updatedAt |-> t]

\* the $set of the booking update
ConfirmSet(session, t) ==
    [paymentStatus |-> "paid",
     status |-> "confirmed",
     transactionId |-> TransactionId(session),
     updatedAt |-> t]

\* the three 200 answers and the two error answers
AlreadyRecorded(tx, payment) ==
    [status |-> 200, message |-> "already exists", transactionId |-> tx,
     payment |-> payment]

Confirmed(session, payId, booking) ==
    [status |-> 200, success |-> TRUE, transactionId |-> TransactionId(session),
     paymentId |-> payId, bookingId |-> session.metadata.bookingId,
     booking |-> booking]

NotPaid == [status |-> 200, success |-> FALSE, message |-> "Payment not completed"]

MissingSessionId == [status |-> 400, message |-> "Missing session_id"]

ConfirmFailed == [status |-> 500, message |-> "Failed to confirm booking"]

\* the request arrives (sid = 0: no session_id, 400) and awaits
\* stripe.checkout.sessions.retrieve(sessionId), which throws for an unknown id
ConfirmStart(p, sid) ==
    /\ req[p].pc = "idle"
    /\ IF sid = 0
       THEN req' = [req EXCEPT ![p] = [IdleReq EXCEPT !.resp = MissingSessionId]]
       ELSE IF sid \in 1..Len(sessions)
       THEN req' = [req EXCEPT ![p] = [IdleReq EXCEPT !.pc = "findPayment",
                                          !.sid = sid, !.session = sessions[sid],
                                          !.again = (sid \in served)]]
       ELSE req' = [req EXCEPT ![p] = [IdleReq EXCEPT !.sid = sid,
                                          !.resp = ConfirmFailed]]
    /\ UNCHANGED <<bookings, nextId, payments, users, nextUid, sessions, now,
                   served, crashed>>

\* await paymentCollection.findOne({ transactionId }), then the two tests
ConfirmFindPayment(p) ==
    /\ req[p].pc = "findPayment"
    /\ LET tx == TransactionId(req[p].session)
           existing == ExistingPayments(tx)
       IN  IF existing # {}
           THEN Respond(p, AlreadyRecorded(tx, payments[FirstOf(existing)]))
           ELSE IF IsPaid(req[p].session)
           THEN req' = [req EXCEPT ![p].pc = "insertPayment"]
           ELSE Respond(p, NotPaid)
    /\ served' = IF req'[p].pc = "idle" THEN Served(p) ELSE served
    /\ UNCHANGED <<bookings, nextId, payments, users, nextUid, sessions, now,
                   crashed>>

\* await paymentCollection.insertOne(paymentDoc)
ConfirmInsertPayment(p) ==
    /\ req[p].pc = "insertPayment"
    /\ payments' = Append(payments,
                      PaymentDoc(req[p].session, Len(payments) + 1, now))
    /\ req' = [req EXCEPT
                 ![p].payId = Len(payments) + 1,
                 ![p].pc = IF req[p].session.metadata.bookingId # 0
                           THEN "updateBooking" ELSE "findBooking"]
    /\ UNCHANGED <<bookings, nextId, users, nextUid, sessions, now, served, crashed>>

\* await bookingCollection.updateOne({ _id }, { $set: ... })
ConfirmUpdateBooking(p) ==
    /\ req[p].pc = "updateBooking"
    /\ LET bid == req[p].session.metadata.bookingId
       IN  IF bid \in DOMAIN bookings
           THEN bookings' = [bookings EXCEPT
                    ![bid] = SetFields(@, ConfirmSet(req[p].session, now))]
           ELSE UNCHANGED bookings
    /\ req' = [req EXCEPT ![p].pc = "findBooking"]
    /\ UNCHANGED <<nextId, payments, users, nextUid, sessions, now, served, crashed>>

\* the booking update throws: catch, 500
ConfirmUpdateFails(p) ==
    /\ req[p].pc = "updateBooking"
    /\ Respond(p, ConfirmFailed)
    /\ crashed' = crashed \cup {req[p].sid}
    /\ served' = Served(p)
    /\ UNCHANGED <<bookings, nextId, payments, users, nextUid, sessions, now>>

\* await bookingCollection.findOne({ _id }) (null without bookingId), res.send
ConfirmFindBooking(p) ==
    /\ req[p].pc = "findBooking"
    /\ LET bid == req[p].session.metadata.bookingId
           booking == IF bid # 0 /\ bid \in DOMAIN bookings
                      THEN <<bookings[bid]>> ELSE <<>>
       IN  Respond(p, Confirmed(req[p].session, req[p].payId, booking))
    /\ served' = Served(p)
    /\ UNCHANGED <<bookings, nextId, payments, users, nextUid, sessions, now,
                   crashed>>

\* the server process dies and restarts: every request in flight is lost
Restart ==
    /\ \E p \in Procs : req[p].pc # "idle"
    /\ req' = [p \in Procs |-> IdleReq]
    /\ crashed' = crashed \cup
                    {req[p].sid : p \in {q \in Procs : req[q].pc = "updateBooking"}}
    /\ UNCHANGED <<bookings, nextId, payments, users, nextUid, sessions, now, served>>

-----------------------------------------------------------------------------
(* The environment: the payer, other users of the provider account, time *)

\* the payer completes the checkout: the session becomes paid
PayerCompletes(sid) ==
    /\ sid \in 1..Len(sessions)
    /\ sessions[sid].payment_status = "unpaid"
    /\ sessions' = [sessions EXCEPT ![sid].payment_status = "paid"]
    /\ UNCHANGED <<bookings, nextId, payments, users, nextUid, now, req, served, crashed>>

\* a session of the same provider account that carries no booking metadata
ForeignSession(status) ==
    /\ Len(sessions) < MaxSessions
    /\ sessions' = Append(sessions,
          [NoSession EXCEPT !.payment_intent = Len(sessions) + 1,
                            !.amount_total = 100, !.currency = "usd",
                            !.payment_status = status,
                            !.customer_email = "guest@x"])
    /\ UNCHANGED <<bookings, nextId, payments, users, nextUid, now, req, served, crashed>>

Tick ==
    /\ now < MaxClock
    /\ now' = now + 1
    /\ UNCHANGED <<bookings, nextId, payments, users, nextUid, sessions, req,
                   served, crashed>>

-----------------------------------------------------------------------------
(* Users CRUD *)

\* usersCollection.find({ email }): the _ids that match
UsersWithEmail(email) == {u \in DOMAIN users : users[u].email = email}

\* POST /users: the user the handler saves (default role, server time)
UserToSave(body, t) ==
    SetFields(body, [role |-> StrOr(body, "role", "user"), updatedAt |-> t])

\* POST /users: updateOne({ email }, { $set: user }, { upsert: true }).
\* The store runs the query and, on a match, the update of the matched
\* document as one step.  Without a match it goes on to insert, and as the
\* collection has no unique index on email (none is created at startup)
\* another upsert may run its own query before this one inserts.
UpsertStart(p, body) ==
    /\ req[p].pc = "idle"
    /\ IF ~TruthyStr(body, "email")
       THEN UNCHANGED <<users, req>>                \* 400 Email is required
       ELSE LET user == UserToSave(body, now)
                match == UsersWithEmail(body.email)
            IN  IF match # {}
                THEN /\ users' = [users EXCEPT
                            ![FirstOf(match)] = SetFields(@, user)]
                     /\ UNCHANGED req
                ELSE /\ req' = [req EXCEPT ![p] = [IdleReq EXCEPT
                                   !.pc = "upsertInsert", !.user = user]]
                     /\ UNCHANGED users
    /\ UNCHANGED <<bookings, nextId, payments, nextUid, sessions, now, served, crashed>>

\* the insert half of an upsert that matched nothing
UpsertInsert(p) ==
    /\ req[p].pc = "upsertInsert"
    /\ nextUid < MaxUsers
    /\ users' = users @@ ((nextUid + 1) :> req[p].user)
    /\ nextUid' = nextUid + 1
    /\ req' = [req EXCEPT ![p] = IdleReq]
    /\ UNCHANGED <<bookings, nextId, payments, sessions, now, served, crashed>>

\* the profile payload with only its email removed
ProfileFieldsKeepingRole(body) == DeleteField(body, "email")

\* PATCH /users/profile/:email: delete updated.email; delete updated.role
ProfileFields(body) == DeleteField(DeleteField(body, "email"), "role")

\* PATCH /users/profile/:email
ProfileUpdate(email, body) ==
    /\ LET match == UsersWithEmail(email)
       IN  IF match # {}
           THEN users' = [users EXCEPT ![FirstOf(match)] =
                    SetFields(@, SetFields(ProfileFields(body), [updatedAt |-> now]))]
           ELSE UNCHANGED users
    /\ UNCHANGED <<bookings, nextId, payments, nextUid, sessions, now, req, served, crashed>>

\* PATCH /users/:id/role
RoleUpdate(uid, role) ==
    /\ IF uid \in DOMAIN users
       THEN users' = [users EXCEPT ![uid] =
                SetFields(@, [role |-> role, updatedAt |-> now])]
       ELSE UNCHANGED users
    /\ UNCHANGED <<bookings, nextId, payments, nextUid, sessions, now, req, served, crashed>>

\* DELETE /users/:id
DeleteUser(uid) ==
    /\ IF uid \in DOMAIN users
       THEN users' = [u \in (DOMAIN users) \ {uid} |-> users[u]]
       ELSE UNCHANGED users                         \* 404
    /\ UNCHANGED <<bookings, nextId, payments, nextUid, sessions, now, req, served, crashed>>

-----------------------------------------------------------------------------
(* The bookings / payments core under arbitrary interleaving *)

Init ==
    /\ bookings = <<>>
    /\ nextId = 0
    /\ payments = <<>>
    /\ users = <<>>
    /\ nextUid = 0
    /\ sessions = <<>>
    /\ now = 0
    /\ req = [p \in Procs |-> IdleReq]
    /\ served = {}
    /\ crashed = {}

PricedBody ==
    [tourId |-> "t1", userEmail |-> "a@x", travelDate |-> "d1",
     pricePerPerson |-> Num(50000), guests |-> 2]

PrepaidBody ==
    [tourId |-> "t1", userEmail |-> "a@x", travelDate |-> "d1",
     pricePerPerson |-> Num(50000), guests |-> 2,
     status |-> "confirmed", paymentStatus |-> "paid", createdAt |-> -1]

UndatedBody == [tourId |-> "t1", userEmail |-> "a@x"]

CoreBodies == {PricedBody, PrepaidBody, UndatedBody}

CorePatches ==
    {[status |-> "cancelled"],
     [status |-> "confirmed", paymentStatus |-> "paid"],
     [createdAt |-> -1]}

Next ==
    \/ \E body \in CoreBodies : CreateBooking(body)
    \/ \E id \in 1..MaxBookings, body \in CorePatches : PatchBooking(id, body)
    \/ \E id \in 1..MaxBookings : DeleteBooking(id)
    \/ \E bid \in 0..MaxBookings : Initiate(bid)
    \/ \E p \in Procs, sid \in 0..MaxSessions : ConfirmStart(p, sid)
    \/ \E p \in Procs : ConfirmFindPayment(p)
    \/ \E p \in Procs : ConfirmInsertPayment(p)
    \/ \E p \in Procs : ConfirmUpdateBooking(p)
    \/ \E p \in Procs : ConfirmUpdateFails(p)
    \/ \E p \in Procs : ConfirmFindBooking(p)
    \/ Restart
    \/ \E sid \in 1..MaxSessions : PayerCompletes(sid)
    \/ \E status \in {"unpaid", "no_payment_required"} : ForeignSession(status)
    \/ Tick

Spec == Init /\ [][Next]_vars

-----------------------------------------------------------------------------
(* The reconciler racing with itself, with booking creation and deletion   *)
(* and with the payer, within one instant of the server clock.  No payload *)
(* carries a transactionId, so only the reconciler writes that field.      *)

NextReconcile ==
    \/ CreateBooking(PricedBody)
    \/ \E id \in 1..MaxBookings : DeleteBooking(id)
    \/ \E bid \in 1..MaxBookings : Initiate(bid)
    \/ \E p \in Procs, sid \in 1..MaxSessions : ConfirmStart(p, sid)
    \/ \E p \in Procs : ConfirmFindPayment(p)
    \/ \E p \in Procs : ConfirmInsertPayment(p)
    \/ \E p \in Procs : ConfirmUpdateBooking(p)
    \/ \E p \in Procs : ConfirmUpdateFails(p)
    \/ \E p \in Procs : ConfirmFindBooking(p)
    \/ Restart
    \/ \E sid \in 1..MaxSessions : PayerCompletes(sid)
    \/ \E status \in {"unpaid", "no_payment_required"} : ForeignSession(status)

SpecReconcile == Init /\ [][NextReconcile]_vars

-----------------------------------------------------------------------------
(* Calls made one after the other: a call starts only when no other call   *)
(* is in flight, so one request slot serves them all.  The payer is not a   *)
(* call and acts at any time.                                              *)

Caller == FirstOf(Procs)

Quiet == \A p \in Procs : req[p].pc = "idle"

NextSeq ==
    \/ Quiet /\ \E body \in CoreBodies : CreateBooking(body)
    \/ Quiet /\ \E id \in 1..MaxBookings, body \in CorePatches : PatchBooking(id, body)
    \/ Quiet /\ \E id \in 1..MaxBookings : DeleteBooking(id)
    \/ Quiet /\ \E bid \in 0..MaxBookings : Initiate(bid)
    \/ Quiet /\ \E sid \in 0..MaxSessions : ConfirmStart(Caller, sid)
    \/ ConfirmFindPayment(Caller)
    \/ ConfirmInsertPayment(Caller)
    \/ ConfirmUpdateBooking(Caller)
    \/ ConfirmUpdateFails(Caller)
    \/ ConfirmFindBooking(Caller)
    \/ Restart
    \/ \E sid \in 1..MaxSessions : PayerCompletes(sid)
    \/ \E status \in {"unpaid", "no_payment_required"} : ForeignSession(status)

SpecSeq == Init /\ [][NextSeq]_vars

-----------------------------------------------------------------------------
(* The user handlers under arbitrary interleaving *)

\* :email of a profile request: the stored account and an unknown one
Emails == {"a@x", "b@x"}

\* registrations and logins of one account, and a body without email
UserBodies ==
    {[email |-> "a@x", name |-> "n"],
     [email |-> "a@x", name |-> "n", role |-> "admin"],
     [name |-> "n"]}

ProfileBodies ==
    {[name |-> "z", email |-> "b@x", role |-> "admin"],
     [country |-> "c"]}

NextUsers ==
    \/ \E p \in Procs, body \in UserBodies : UpsertStart(p, body)
    \/ \E p \in Procs : UpsertInsert(p)
    \/ \E e \in Emails, body \in ProfileBodies : ProfileUpdate(e, body)
    \/ \E uid \in 1..MaxUsers, role \in {"user", "admin"} : RoleUpdate(uid, role)
    \/ \E uid \in 1..MaxUsers : DeleteUser(uid)
    \/ Tick

SpecUsers == Init /\ [][NextUsers]_vars

-----------------------------------------------------------------------------
(* The checkout initiator over bookings of every pricing shape *)

Opt(f, o) == IF o = <<>> THEN <<>> ELSE f :> o[1]

FinalPrices == {<<>>, <<Num(0)>>, <<Num(19995)>>, <<NonNumeric>>}
OriginalTotals == {<<>>, <<Num(0)>>, <<Num(100000)>>}
UnitPrices == {<<>>, <<Num(0)>>, <<Num(50000)>>, <<NonNumeric>>}
Guests == {<<>>, <<0>>, <<2>>}
NumbersOfGuests == {<<>>, <<3>>}

PricingBodies ==
    {[tourId |-> "t1", userEmail |-> "a@x", travelDate |-> "d1"]
        @@ Opt("finalPrice", fp) @@ Opt("originalTotal", ot)
        @@ Opt("pricePerPerson", pp) @@ Opt("guests", g)
        @@ Opt("numberOfGuests", ng) :
     fp \in FinalPrices, ot \in OriginalTotals, pp \in UnitPrices,
     g \in Guests, ng \in NumbersOfGuests}

NextCheckout ==
    \/ \E body \in PricingBodies : CreateBooking(body)
    \/ \E id \in 1..MaxBookings : DeleteBooking(id)
    \/ \E bid \in 0..MaxBookings : Initiate(bid)

SpecCheckout == Init /\ [][NextCheckout]_vars

-----------------------------------------------------------------------------
(* Properties of the Payment and Booking stores *)

PaymentsOf(session) == ExistingPayments(session.payment_intent)

\* p's request made a step that was not the loss of the request in a restart
Stepped(p) == req'[p] # req[p] /\ req'[p] # IdleReq

\* p's request has just been answered
Answered(p) == Stepped(p) /\ req'[p].pc = "idle"

\* C1: at no time do two Payment documents carry the same transactionId,
\* whatever the interleaving of the confirm calls.
C1_OnePaymentPerTransaction ==
    \A i, j \in 1..Len(payments) :
        payments[i].transactionId = payments[j].transactionId => i = j

\* C2: a confirm call for a paid session that starts after an earlier call
\* for that session has returned writes neither store, and is answered
\* "already exists" with the session's transactionId and the one stored
\* Payment of that transaction.
C2_SecondConfirmAlreadyRecorded ==
    [][\A p \in Procs :
          (req[p].again /\ req[p].pc # "idle") =>
             /\ payments' = payments
             /\ bookings' = bookings
             /\ Answered(p) =>
                  LET r == req'[p].resp
                      found == PaymentsOf(req[p].session)
                  IN  /\ r.status = 200
                      /\ Has(r, "message") /\ r.message = "already exists"
                      /\ r.transactionId = req[p].session.payment_intent
                      /\ Cardinality(found) = 1
                      /\ \A i \in found : r.payment = payments[i]]_vars

C2_Witness ==
    \E p \in Procs :
        /\ req[p].again
        /\ req[p].pc = "idle"
        /\ Has(req[p].resp, "message")
        /\ req[p].resp.message = "already exists"
        /\ req[p].session.payment_status = "paid"

\* C3: a booking becomes paid, or becomes confirmed, only in the booking
\* update of a confirm call for a session of that booking.
C3_PaidOnlyByReconciler ==
    [][\A b \in DOMAIN bookings' :
          LET wasPaid == b \in DOMAIN bookings /\ bookings[b].paymentStatus = "paid"
              wasConfirmed == b \in DOMAIN bookings /\ bookings[b].status = "confirmed"
          IN  (\/ bookings'[b].paymentStatus = "paid" /\ ~wasPaid
               \/ bookings'[b].status = "confirmed" /\ ~wasConfirmed)
              => \E p \in Procs :
                    /\ req[p].pc = "updateBooking"
                    /\ req'[p].pc = "findBooking"
                    /\ req[p].session.metadata.bookingId = b]_vars

\* C4: a confirm call whose session the provider does not report paid
\* writes neither store in any of its steps, and when it is answered
\* without error the answer is "Payment not completed".
C4_NotPaidNoWrites ==
    [][\A p \in Procs :
          (/\ Stepped(p)
           /\ req'[p].sid \in 1..Len(sessions)
           /\ sessions[req'[p].sid].payment_status # "paid") =>
             /\ payments' = payments
             /\ bookings' = bookings
             /\ (req'[p].pc = "idle" /\ req'[p].resp.status = 200)
                   => req'[p].resp = [status |-> 200, success |-> FALSE,
                                      message |-> "Payment not completed"]]_vars

C4_Witness ==
    \E p \in Procs :
        /\ req[p].pc = "idle"
        /\ req[p].sid \in 1..Len(sessions)
        /\ sessions[req[p].sid].payment_status # "paid"
        /\ Has(req[p].resp, "success")
        /\ ~req[p].resp.success

C9_CreatedAtNeverChanges ==
    [][\A b \in (DOMAIN bookings) \cap (DOMAIN bookings') :
          bookings'[b].createdAt = bookings[b].createdAt]_vars

\* C10: a booking that carries a transactionId has a stored Payment of that
\* transaction; and once a confirm call has failed between its two writes,
\* every later lookup of a confirm call for that session finds the Payment:
\* the call is answered "already exists" and writes neither store.
C10_InsertBeforeUpdate ==
    /\ [](\A b \in DOMAIN bookings :
            Has(bookings[b], "transactionId")
              => ExistingPayments(bookings[b].transactionId) # {})
    /\ [][\A p \in Procs :
            (/\ req[p].pc = "findPayment"
             /\ req[p].sid \in crashed
             /\ Stepped(p)) =>
               /\ req'[p].pc = "idle"
               /\ Has(req'[p].resp, "message")
               /\ req'[p].resp.message = "already exists"
               /\ req'[p].resp.payment.transactionId = req[p].session.payment_intent
               /\ payments' = payments
               /\ bookings' = bookings]_vars

C10_Witness ==
    \E p \in Procs :
        /\ req[p].pc = "idle"
        /\ req[p].sid \in crashed
        /\ Has(req[p].resp, "message")
        /\ req[p].resp.message = "already exists"
        /\ Cardinality(PaymentsOf(req[p].session)) = 1
        /\ LET bid == req[p].session.metadata.bookingId
           IN  bid \in DOMAIN bookings /\ bookings[bid].paymentStatus = "unpaid"

-----------------------------------------------------------------------------
(* Properties of the User store *)

\* C6: at no time do two User documents carry the same email.
C6_OneUserPerEmail ==
    \A u, v \in DOMAIN users : users[u].email = users[v].email => u = v

\* C7: a profile update, whatever its payload, leaves every stored user's
\* email and role as they were and changes no field other than updatedAt
\* and the payload's own.
C7_ProfileKeepsEmailAndRole ==
    [][\A e \in Emails, body \in ProfileBodies :
          ProfileUpdate(e, body) =>
             /\ DOMAIN users' = DOMAIN users
             /\ \A u \in DOMAIN users :
                  /\ users'[u].email = users[u].email
                  /\ users'[u].role = users[u].role
                  /\ \A f \in DOMAIN users[u] :
                       f \notin (DOMAIN body) \cup {"updatedAt"}
                         => users'[u][f] = users[u][f]]_vars

C7_Witness ==
    \E u \in DOMAIN users :
        /\ Has(users[u], "name") /\ users[u].name = "z"
        /\ users[u].email = "a@x"
        /\ users[u].role = "user"

-----------------------------------------------------------------------------
(* Properties of the Checkout Initiator *)

\* the guest count as stated: the count given, 1 when no count is given
\* (a count of 0 is no count)
StatedGuests(booking) ==
    IF Has(booking, "guests") /\ booking.guests > 0 THEN booking.guests
    ELSE IF Has(booking, "numberOfGuests") /\ booking.numberOfGuests > 0
    THEN booking.numberOfGuests
    ELSE 1

\* the price as stated: the explicit final price, else the explicit
\* pre-discount total, else unit price times guest count
StatedPrice(booking) ==
    IF Has(booking, "finalPrice") THEN booking.finalPrice
    ELSE IF Has(booking, "originalTotal") THEN booking.originalTotal
    ELSE IF Has(booking, "pricePerPerson") /\ booking.pricePerPerson.t = "num"
    THEN Num(booking.pricePerPerson.v * StatedGuests(booking))
    ELSE NaN

\* 100 times the stated price, in cents; 0 when it is not a number
StatedCents(booking) ==
    IF StatedPrice(booking).t = "num"
    THEN MathRound10(StatedPrice(booking).v) ELSE 0

\* C8: every checkout session opened for a booking charges the stated
\* amount of that booking, and none is opened when that amount is zero or
\* not a number.  (No handler of SpecCheckout changes a stored booking.)
C8_ChargeAsStated ==
    \A s \in 1..Len(sessions) :
        LET bid == sessions[s].metadata.bookingId
        IN  bid \in DOMAIN bookings =>
              /\ StatedCents(bookings[bid]) # 0
              /\ sessions[s].amount_total = StatedCents(bookings[bid])

=============================================================================
